---------------------------- MODULE Spec2Model ----------------------------
(***************************************************************************)
(* A model of the monthly report preparation scripts:                      *)
(*   getSimilarFolder.py  find_similar_subdirs (the Similarity Matcher)    *)
(*   copyNewFile.py       find_monthly_xlsx_files, copy_and_rename_file    *)
(*   insertPic2Excel.py   find_first_empty_row_and_format (the Tagger),    *)
(*                        insert_images_to_excel_with_pdf (the Inserter)   *)
(*   main.py              automate_monthly_report_prep_final               *)
(*                                                                         *)
(* Strings are sequences of one-character strings, so that lower(), the    *)
(* regular expression search, re.sub and difflib's ratio are computed on   *)
(* characters.  A character outside ASCII is written as a named atom       *)
(* ("<shi>" for U+5341); it has no case.                                   *)
(***************************************************************************)
EXTENDS Integers, Sequences, FiniteSets, TLC

VARIABLES
    pc,                   \* position of the running function
    dir1, dir2,           \* the two roots: [isdir, entries (os.listdir)]
    folder_name_filter,   \* find_similar_subdirs' third argument
    similarity_threshold, \* <<num, den>>, the rational num/den in [0,1]
    matched_pairs,        \* the list find_similar_subdirs returns
    fs,                   \* the files on disk: path -> [data, mtime]
    locate_args,          \* the last call of find_monthly_xlsx_files
    found_files_and_matches, \* and what it returned, a set of <<path, keyword>>
    rename_args,          \* the last call of copy_and_rename_file
    rename_result,        \* and what it returned: a path, or NoPath for None
    repeat,               \* how many times in a row that call was made
    pair_idx,             \* the orchestrator's position in directory_mappings
    total_processed_folders,
    exception,            \* the exception that ended the run, "" for none
    summary_printed,      \* whether the final summary report was printed
    now,                  \* datetime.now().strftime("%Y-%m")
    excel,                \* the workbook at excel_path, on disk
    file_paths,           \* the Inserter's list: each path with what the disk holds there
    runs,                 \* the Tagger and Inserter runs made so far
    workbook,             \* the Inserter's workbook in memory: its sheets
    actual_sheet_name, col_str, row_idx,
    current_row,          \* the insertion cursor
    success_count,
    file_idx,             \* the loop's position in file_paths, from 1
    page_num,             \* the page loop's position, from 0
    open_docs,            \* the PDF documents opened and not closed
    temp_img              \* the PNG files written to _temp_img: <<file, page>>

matcherVars == <<dir1, dir2, folder_name_filter, similarity_threshold, matched_pairs>>

fileVars == <<fs, locate_args, found_files_and_matches, rename_args, rename_result, repeat>>

orchVars == <<pair_idx, total_processed_folders, exception, summary_printed>>

insVars == <<now, excel, file_paths, runs, workbook, actual_sheet_name, col_str, row_idx,
             current_row, success_count, file_idx, page_num, open_docs, temp_img>>

vars == <<pc, matcherVars, fileVars, orchVars, insVars>>

----------------------------------------------------------------------------
(* Generic helpers *)

Max(S) == CHOOSE x \in S : \A y \in S : y <= x

Min(S) == CHOOSE x \in S : \A y \in S : x <= y

Range(s) == {s[i] : i \in 1..Len(s)}

\* s[lo..hi] as Python's s[lo-1:hi]; empty when hi < lo
Slice(s, lo, hi) == [i \in 1..(IF hi >= lo THEN hi - lo + 1 ELSE 0) |-> s[lo + i - 1]]

\* Duplicate-free sequences over S of length at most n
RECURSIVE SeqsUpTo(_, _)
SeqsUpTo(S, n) ==
    IF n = 0 THEN {<<>>}
    ELSE LET shorter == SeqsUpTo(S, n - 1)
         IN  shorter \cup
                 UNION {{Append(s, x) : x \in S \ Range(s)} :
                            s \in {t \in shorter : Len(t) = n - 1}}

\* os.path.join(dir, name); os.path.dirname and os.path.basename are its parts
Join(dir, name) == <<dir, name>>

----------------------------------------------------------------------------
(* None, and the variables of a component that is not running *)

\* None, for a path
NoPath == <<>>

\* target_base_dir = None
NoDir == "None"

\* best_match_name = None; a folder name is never empty, so `if best_match_name`
\* is false exactly for None
NoName == <<>>

MatcherIdle ==
    /\ dir1 = [isdir |-> FALSE, entries |-> <<>>]
    /\ dir2 = [isdir |-> FALSE, entries |-> <<>>]
    /\ folder_name_filter = <<>>
    /\ similarity_threshold = <<0, 1>>
    /\ matched_pairs = <<>>

OrchIdle ==
    /\ pair_idx = 0
    /\ total_processed_folders = 0
    /\ exception = ""
    /\ summary_printed = FALSE

InsIdle ==
    /\ now = "2025-11"
    /\ excel = [status |-> "missing", sheets |-> <<>>]
    /\ file_paths = <<>>
    /\ runs = <<>>
    /\ workbook = <<>>
    /\ actual_sheet_name = NoName
    /\ col_str = ""
    /\ row_idx = 0
    /\ current_row = 0
    /\ success_count = 0
    /\ file_idx = 0
    /\ page_num = 0
    /\ open_docs = {}
    /\ temp_img = {}

FilesIdle ==
    /\ fs = <<>>
    /\ locate_args = [base_path |-> "", month_keywords |-> <<>>]
    /\ found_files_and_matches = {}
    /\ rename_args = [source_path |-> NoPath, matched_keyword |-> <<>>, target_base_dir |-> NoDir]
    /\ rename_result = NoPath
    /\ repeat = 0

----------------------------------------------------------------------------
(* str.lower() *)

UpperToLower ==
    [c \in {"A","B","C","D","E","F","G","H","I","J","K","L","M",
            "N","O","P","Q","R","S","T","U","V","W","X","Y","Z"} |->
        CASE c = "A" -> "a" [] c = "B" -> "b" [] c = "C" -> "c" [] c = "D" -> "d"
          [] c = "E" -> "e" [] c = "F" -> "f" [] c = "G" -> "g" [] c = "H" -> "h"
          [] c = "I" -> "i" [] c = "J" -> "j" [] c = "K" -> "k" [] c = "L" -> "l"
          [] c = "M" -> "m" [] c = "N" -> "n" [] c = "O" -> "o" [] c = "P" -> "p"
          [] c = "Q" -> "q" [] c = "R" -> "r" [] c = "S" -> "s" [] c = "T" -> "t"
          [] c = "U" -> "u" [] c = "V" -> "v" [] c = "W" -> "w" [] c = "X" -> "x"
          [] c = "Y" -> "y" [] c = "Z" -> "z"]

LowerChar(c) == IF c \in DOMAIN UpperToLower THEN UpperToLower[c] ELSE c

lower(s) == [i \in 1..Len(s) |-> LowerChar(s[i])]

\* Python's `sub in s`
Contains(s, sub) ==
    \E p \in 1..(Len(s) - Len(sub) + 1) : Slice(s, p, p + Len(sub) - 1) = sub

----------------------------------------------------------------------------
(* difflib.SequenceMatcher(None, a, b).ratio(), no junk; the autojunk      *)
(* heuristic needs a second string of 200 characters or more.              *)

\* How far a[i..] and b[j..] agree
RECURSIVE RunLength(_, _, _, _)
RunLength(a, b, i, j) ==
    IF i > Len(a) \/ j > Len(b) THEN 0
    ELSE IF a[i] # b[j] THEN 0
    ELSE 1 + RunLength(a, b, i + 1, j + 1)

\* For every i, j with a[i] = b[j], the longest block <<i, j, k>> that starts
\* there: a[i..i+k-1] = b[j..j+k-1]
MatchingBlocks(a, b) ==
    {<<p[1], p[2], RunLength(a, b, p[1], p[2])>> :
        p \in {q \in (1..Len(a)) \X (1..Len(b)) : a[q[1]] = b[q[2]]}}

\* find_longest_match: the longest block, the earliest in a, then the earliest in b
LongestMatch(a, b) ==
    LET blocks == MatchingBlocks(a, b)
        k  == Max({t[3] : t \in blocks})
        i  == Min({t[1] : t \in {u \in blocks : u[3] = k}})
        j  == Min({t[2] : t \in {u \in blocks : u[3] = k /\ u[1] = i}})
    IN  <<i, j, k>>

\* get_matching_blocks: the longest block, then the same to its left and right;
\* the sum of the block sizes
RECURSIVE MatchCount(_, _)
MatchCount(a, b) ==
    IF MatchingBlocks(a, b) = {} THEN 0
    ELSE LET m == LongestMatch(a, b)
         IN  m[3] + MatchCount(Slice(a, 1, m[1] - 1), Slice(b, 1, m[2] - 1))
                  + MatchCount(Slice(a, m[1] + m[3], Len(a)), Slice(b, m[2] + m[3], Len(b)))

\* ratio() = 2.0 * matches / (len(a) + len(b)), 1.0 for two empty strings;
\* kept exact as <<numerator, denominator>>
Ratio(a, b) ==
    IF Len(a) + Len(b) = 0 THEN <<1, 1>>
    ELSE <<2 * MatchCount(a, b), Len(a) + Len(b)>>

\* p > q for rationals with positive denominators
RatGt(p, q) == p[1] * q[2] > q[1] * p[2]

RatEq(p, q) == p[1] * q[2] = q[1] * p[2]

RatGe(p, q) == p[1] * q[2] >= q[1] * p[2]

\* the comparison `current_ratio > max_ratio` of the matcher
RatGtStrict(p, q) == RatGt(p, q)


----------------------------------------------------------------------------
(* copyNewFile.py: the Month-File Locator and the Renamer *)

MaxRepeat == 2

\* MONTH_REPLACEMENTS, its keys in the order of the dict.  "<shi>" is U+5341,
\* "<yue>" U+6708 and "<yi>" U+4E00.
MonthKeys ==
    << <<"o","c","t","o","b","e","r">>,
       <<"o","c","t">>,
       <<"<shi>","<yue>">>,
       <<"1","0","<yue>">>,
       <<"1","0">> >>

MonthValues ==
    << <<"N","o","v","e","m","b","e","r">>,
       <<"N","o","v">>,
       <<"<shi>","<yi>","<yue>">>,
       <<"1","1","<yue>">>,
       <<"1","1">> >>

InReplacements(key) == \E i \in 1..Len(MonthKeys) : MonthKeys[i] = key

MONTH_REPLACEMENTS(key) ==
    MonthValues[CHOOSE i \in 1..Len(MonthKeys) : MonthKeys[i] = key]

DotXlsx == <<".","x","l","s","x">>

\* str.endswith
EndsWith(s, suffix) ==
    /\ Len(s) >= Len(suffix)
    /\ Slice(s, Len(s) - Len(suffix) + 1, Len(s)) = suffix

\* Whether keyword k, compared without case, stands in `file` at position p
OccursAt(file, k, p) ==
    /\ p >= 1
    /\ p + Len(k) - 1 <= Len(file)
    /\ lower(Slice(file, p, p + Len(k) - 1)) = lower(k)

\* search_pattern = ".*?(k1|k2|...).*?\.xlsx$" with re.IGNORECASE, at position p
\* with alternative i: the keyword stands at p and ".xlsx" ends the name after
\* it.  The pattern holds no \b: nothing is asked of the characters around the
\* keyword.
PatternAt(file, month_keywords, p, i) ==
    /\ OccursAt(file, month_keywords[i], p)
    /\ p + Len(month_keywords[i]) - 1 <= Len(file) - Len(DotXlsx)
    /\ EndsWith(lower(file), DotXlsx)

\* search_pattern.search(file): the lazy ".*?" stops at the first position where
\* an alternative fits, and the alternatives are tried in the order of the list.
\* <<TRUE, match.group(1)>>, or <<FALSE, <<>>>> for no match.
Search(file, month_keywords) ==
    LET hits == {p \in 1..Len(file) :
                    \E i \in 1..Len(month_keywords) : PatternAt(file, month_keywords, p, i)}
    IN  IF hits = {} THEN <<FALSE, <<>>>>
        ELSE LET p == Min(hits)
                 i == Min({j \in 1..Len(month_keywords) : PatternAt(file, month_keywords, p, j)})
             IN  <<TRUE, Slice(file, p, p + Len(month_keywords[i]) - 1)>>

\* The directories of the disk; the scripts create none here (the makedirs of
\* copy_and_rename_file is commented out).  os.walk(base) visits base and the
\* directories below it.
ExistingDirs == {"d1", "d1/sub", "d2"}

Walk(base_path) ==
    IF base_path = "d1" THEN {"d1", "d1/sub"}
    ELSE IF base_path \in ExistingDirs THEN {base_path}
    ELSE {}

\* os.path.exists
Exists(disk, path) == path \in DOMAIN disk

\* find_monthly_xlsx_files; the order of the returned list is the order of
\* os.walk, which the operating system chooses: the result is kept as a set
find_monthly_xlsx_files(disk, base_path, month_keywords) ==
    IF base_path \notin ExistingDirs THEN {}
    ELSE {<<path, Search(path[2], month_keywords)[2]>> :
              path \in {q \in DOMAIN disk :
                           /\ q[1] \in Walk(base_path)
                           /\ EndsWith(lower(q[2]), DotXlsx)
                           /\ Search(q[2], month_keywords)[1]}}

\* re.sub(re.escape(matched_keyword), re.escape(replacement), original_filename,
\*        flags=re.IGNORECASE, count=1): the first occurrence, compared without
\* case, is replaced; without an occurrence the name is kept.  re.escape leaves
\* the letters, digits and non-ASCII characters of the table's values as they are.
SubFirst(matched_keyword, replacement, original_filename) ==
    LET hits == {p \in 1..Len(original_filename) : OccursAt(original_filename, matched_keyword, p)}
    IN  IF hits = {} THEN original_filename
        ELSE LET p == Min(hits)
             IN  Slice(original_filename, 1, p - 1) \o replacement
                     \o Slice(original_filename, p + Len(matched_keyword), Len(original_filename))

KeywordAsGiven(matched_keyword) == matched_keyword

\* keyword_to_find = matched_keyword.lower()
KeywordToFind(matched_keyword) == lower(matched_keyword)

\* target_path of copy_and_rename_file, NoPath when the keyword is not in the table
TargetPath(source_path, matched_keyword, target_base_dir) ==
    LET original_dir      == source_path[1]
        original_filename == source_path[2]
        target_dir        == IF target_base_dir # NoDir THEN target_base_dir ELSE original_dir
        keyword_to_find   == KeywordToFind(matched_keyword)
    IN  IF InReplacements(keyword_to_find)
        THEN Join(target_dir, SubFirst(matched_keyword, MONTH_REPLACEMENTS(keyword_to_find),
                                       original_filename))
        ELSE NoPath

\* shutil.copy2(source_path, target_path): data and metadata of the source at the
\* target; it raises, and writes nothing, when the source is no file or the
\* target's directory does not exist
Copy2Raises(disk, source_path, target_path) ==
    \/ ~Exists(disk, source_path)
    \/ target_path[1] \notin ExistingDirs

Copy2(disk, source_path, target_path) ==
    [q \in DOMAIN disk \cup {target_path} |->
        IF q = target_path THEN disk[source_path] ELSE disk[q]]

NeverSkips(disk, target_path) == FALSE

\* if os.path.exists(target_path): return target_path, without a copy
SkipsCopy(disk, target_path) == Exists(disk, target_path)

\* copy_and_rename_file: <<disk afterwards, returned path>>
copy_and_rename_file(disk, source_path, matched_keyword, target_base_dir) ==
    LET target_path == TargetPath(source_path, matched_keyword, target_base_dir)
    IN  IF target_path = NoPath THEN <<disk, NoPath>>
        ELSE IF SkipsCopy(disk, target_path) THEN <<disk, target_path>>
        ELSE IF Copy2Raises(disk, source_path, target_path) THEN <<disk, NoPath>>
        ELSE <<Copy2(disk, source_path, target_path), target_path>>

\* The file names of the reports folder
N2010 == <<"2","0","1","0",".","x","l","s","x">>

NReport10 ==
    <<"R","e","p","o","r","t","_","1","0","_","F","i","n","a","l",".","x","l","s","x">>

NBudgetOct ==
    <<"B","u","d","g","e","t","_","O","c","t","_","2","0","2","5",".","x","l","s","x">>

NBudgetNov ==
    <<"B","u","d","g","e","t","_","N","o","v","_","2","0","2","5",".","x","l","s","x">>

NOctUpper == <<"O","C","T",".","X","L","S","X">>

NTenTxt == <<"1","0",".","t","x","t">>

\* The files a disk may hold at the start, each with data and a modification
\* time of its own
FilePool ==
    { <<Join("d1", N2010),         [data |-> "2010",      mtime |-> "t1"]>>,
      <<Join("d1", NReport10),     [data |-> "report10",  mtime |-> "t2"]>>,
      <<Join("d1/sub", NBudgetOct),[data |-> "budgetOct", mtime |-> "t3"]>>,
      <<Join("d1/sub", NBudgetNov),[data |-> "budgetNov", mtime |-> "t4"]>>,
      <<Join("d2", NOctUpper),     [data |-> "octUpper",  mtime |-> "t5"]>>,
      <<Join("d2", NTenTxt),       [data |-> "tenTxt",    mtime |-> "t6"]>> }

DiskOf(entries) ==
    [q \in {e[1] : e \in entries} |-> (CHOOSE e \in entries : e[1] = q)[2]]

Disks == {DiskOf(entries) : entries \in SUBSET FilePool}

KeywordLists == { << <<"1","0">> >>, MonthKeys }

BasePaths == ExistingDirs \cup {"gone"}

SourcePaths == {e[1] : e \in FilePool}

\* Keywords as the Locator returns them, in the case of the file name, and one
\* that is no key of the table
MatchedKeywords ==
    { <<"1","0">>, <<"O","c","t">>, <<"O","C","T">>, <<"N","o","v">> }

TargetDirs == {NoDir, "d2", "gone"}

FilesInit ==
    /\ pc = "files"
    /\ MatcherIdle
    /\ OrchIdle
    /\ InsIdle
    /\ fs \in Disks
    /\ locate_args = [base_path |-> "", month_keywords |-> <<>>]
    /\ found_files_and_matches = {}
    /\ rename_args = [source_path |-> NoPath, matched_keyword |-> <<>>, target_base_dir |-> NoDir]
    /\ rename_result = NoPath
    /\ repeat = 0

\* A call of find_monthly_xlsx_files
Locate ==
    /\ pc = "files"
    /\ \E base_path \in BasePaths, month_keywords \in KeywordLists :
          /\ locate_args' = [base_path |-> base_path, month_keywords |-> month_keywords]
          /\ found_files_and_matches' = find_monthly_xlsx_files(fs, base_path, month_keywords)
    /\ pc' = "located"
    /\ UNCHANGED <<fs, rename_args, rename_result, repeat>>
    /\ UNCHANGED <<matcherVars, orchVars, insVars>>

\* A call of copy_and_rename_file with the given arguments
RenameCall(source_path, matched_keyword, target_base_dir) ==
    LET r == copy_and_rename_file(fs, source_path, matched_keyword, target_base_dir)
    IN  /\ rename_args' = [source_path |-> source_path, matched_keyword |-> matched_keyword,
                           target_base_dir |-> target_base_dir]
        /\ fs' = r[1]
        /\ rename_result' = r[2]
        /\ pc' = "renamed"
        /\ UNCHANGED <<locate_args, found_files_and_matches>>
        /\ UNCHANGED <<matcherVars, orchVars, insVars>>

\* copy_and_rename_file on any file and keyword
Rename ==
    /\ pc = "files"
    /\ repeat' = 1
    /\ \E source_path \in SourcePaths, matched_keyword \in MatchedKeywords,
          target_base_dir \in TargetDirs :
          RenameCall(source_path, matched_keyword, target_base_dir)

\* copy_and_rename_file on a file the Locator found, with the keyword it matched
RenameFound ==
    /\ pc = "located"
    /\ repeat' = 1
    /\ \E f \in found_files_and_matches, target_base_dir \in TargetDirs :
          RenameCall(f[1], f[2], target_base_dir)

\* The same call once more (a re-run)
RenameAgain ==
    /\ pc = "renamed"
    /\ repeat < MaxRepeat
    /\ repeat' = repeat + 1
    /\ RenameCall(rename_args.source_path, rename_args.matched_keyword,
                  rename_args.target_base_dir)

FilesNext == Locate \/ Rename \/ RenameFound \/ RenameAgain

SpecFiles == FilesInit /\ [][FilesNext]_vars

(* Claims on the Locator and the Renamer *)

Digits == {"0","1","2","3","4","5","6","7","8","9"}

\* The characters of a word: letters, digits and the CJK characters; the
\* underscore separates words ("Report_10_Final")
WordChars ==
    DOMAIN UpperToLower \cup {UpperToLower[c] : c \in DOMAIN UpperToLower}
        \cup Digits \cup {"<shi>", "<yue>", "<yi>"}

\* The keyword stands in the file name as a whole word
WordBounded(file, k) ==
    \E p \in 1..Len(file) :
        /\ OccursAt(file, k, p)
        /\ (p = 1 \/ file[p - 1] \notin WordChars)
        /\ (p + Len(k) > Len(file) \/ file[p + Len(k)] \notin WordChars)

\* C6: a token matches a file name only as a whole word: "2010.xlsx" is not
\* matched by the token "10", and "Report_10_Final.xlsx" is.
C6_WordBoundaryMatching ==
    pc = "located" =>
        /\ \A f \in found_files_and_matches : WordBounded(f[1][2], f[2])
        /\ \A path \in DOMAIN fs :
              (path[1] \in Walk(locate_args.base_path) /\ path[2] = NReport10)
                  => <<path, <<"1","0">>>> \in found_files_and_matches

\* The keys of the successor table, as the dict literal lists them
TableKeys ==
    { <<"o","c","t","o","b","e","r">>, <<"o","c","t">>, <<"<shi>","<yue>">>,
      <<"1","0","<yue>">>, <<"1","0">> }

\* C13: a call of copy_and_rename_file whose keyword, lowercased, is no key of
\* the successor table leaves the disk as it is and returns None; a keyword
\* that is a key in any casing ("OCT", "Oct") is looked up: with the source
\* file and the target directory there, the call returns a path that exists.
C13_LookupMissBlocksRenaming ==
    [][ repeat' # repeat =>
          LET keyword == rename_args'.matched_keyword
              source  == rename_args'.source_path
              target  == rename_args'.target_base_dir
          IN  /\ lower(keyword) \notin TableKeys =>
                     (fs' = fs /\ rename_result' = NoPath)
              /\ ( /\ lower(keyword) \in TableKeys
                   /\ Exists(fs, source)
                   /\ target \in ExistingDirs \cup {NoDir} ) =>
                     (rename_result' # NoPath /\ Exists(fs', rename_result'))
      ]_vars

\* Budget_Oct_2025.xlsx with the keyword "Nov", which is no key: nothing is
\* returned, and no file was made of it
C13_Witness ==
    /\ pc = "renamed"
    /\ rename_args.matched_keyword = <<"N","o","v">>
    /\ rename_args.source_path = Join("d1/sub", NBudgetOct)
    /\ Exists(fs, rename_args.source_path)
    /\ rename_args.target_base_dir = "d2"
    /\ rename_result = NoPath
    /\ \A path \in DOMAIN fs : path[1] # "d2"

----------------------------------------------------------------------------
(* getSimilarFolder.py: the Similarity Matcher *)

MaxDirs == 2

\* The folder names the listings are drawn from: equal up to case ("nov",
\* "NOV"), partly similar ("no": ratio 4/5 with "nov") and unrelated ("xy")
NamePool ==
    { <<"n","o","v">>, <<"N","O","V">>, <<"n","o">>, <<"x","y">> }

\* What os.listdir yields: sub-directories, and a plain file among them
EntryPool ==
    {[name |-> n, isdir |-> TRUE] : n \in NamePool}
        \cup {[name |-> <<"n","o","v",".","t">>, isdir |-> FALSE]}

\* A root folder: its listing, or a path that is no directory
Listings ==
    {[isdir |-> TRUE, entries |-> l] : l \in SeqsUpTo(EntryPool, MaxDirs)}
        \cup {[isdir |-> FALSE, entries |-> <<>>]}

\* 0.7 is the orchestrator's default, 0.8 the matcher's
Thresholds == { <<0, 1>>, <<7, 10>>, <<4, 5>>, <<1, 1>> }

\* FOLD_NAME_FILTER of main.py
FOLD_NAME_FILTER == <<"N","O","V">>

Filters == { <<>>, FOLD_NAME_FILTER }

RECURSIVE SelectSeq2(_, _, _)
\* the sub-sequence of the entries that are directories whose lowered name
\* holds the lowered required substring
SelectSeq2(listing, required_substring, k) ==
    IF k > Len(listing) THEN <<>>
    ELSE LET e == listing[k]
             rest == SelectSeq2(listing, required_substring, k + 1)
         IN  IF e.isdir /\ Contains(lower(e.name), lower(required_substring))
             THEN <<e.name>> \o rest
             ELSE rest

get_first_level_subdirs(listing, required_substring) ==
    IF ~listing.isdir THEN <<>>
    ELSE SelectSeq2(listing.entries, required_substring, 1)

\* A loop that settles for the first folder above the threshold
FirstAboveThreshold(name1, unmatched, k, best) ==
    LET above == {j \in k..Len(unmatched) :
                     RatGtStrict(Ratio(lower(name1), lower(unmatched[j])), best[2])}
    IN  IF above = {} THEN best
        ELSE <<unmatched[Min(above)], Ratio(lower(name1), lower(unmatched[Min(above)]))>>

\* The inner loop over unmatched_subdirs2 from position k on, with the best
\* so far: <<best_match_name, max_ratio>>
RECURSIVE BestMatchFrom(_, _, _, _)
BestMatchFrom(name1, unmatched, k, best) ==
    IF k > Len(unmatched) THEN best
    ELSE LET current_ratio == Ratio(lower(name1), lower(unmatched[k]))
         IN  IF RatGtStrict(current_ratio, best[2])
             THEN BestMatchFrom(name1, unmatched, k + 1, <<unmatched[k], current_ratio>>)
             ELSE BestMatchFrom(name1, unmatched, k + 1, best)

\* list.remove(x): without the first element equal to x
RemoveFirst(s, x) ==
    LET p == Min({i \in 1..Len(s) : s[i] = x})
    IN  Slice(s, 1, p - 1) \o Slice(s, p + 1, Len(s))

KeepMatched(unmatched, best_match_name) == unmatched

\* What is left of unmatched_subdirs2 once best_match_name is matched
Unmatch(unmatched, best_match_name) == RemoveFirst(unmatched, best_match_name)

\* The outer loop over subdirs1 from position k on
RECURSIVE MatchFrom(_, _, _, _, _)
MatchFrom(subdirs1, k, unmatched, threshold, pairs) ==
    IF k > Len(subdirs1) THEN pairs
    ELSE LET name1 == subdirs1[k]
             best  == BestMatchFrom(name1, unmatched, 1, <<NoName, threshold>>)
         IN  IF best[1] # NoName
             THEN MatchFrom(subdirs1, k + 1, Unmatch(unmatched, best[1]), threshold,
                      Append(pairs, <<Join("dir1", name1), Join("dir2", best[1]), best[2]>>))
             ELSE MatchFrom(subdirs1, k + 1, unmatched, threshold, pairs)

find_similar_subdirs(listing1, listing2, name_filter, threshold) ==
    LET subdirs1 == get_first_level_subdirs(listing1, name_filter)
        subdirs2 == get_first_level_subdirs(listing2, <<>>)
    IN  IF subdirs1 = <<>> \/ subdirs2 = <<>> THEN <<>>
        ELSE MatchFrom(subdirs1, 1, subdirs2, threshold, <<>>)

MatcherInit ==
    /\ pc = "match"
    /\ FilesIdle
    /\ OrchIdle
    /\ InsIdle
    /\ dir1 \in Listings
    /\ dir2 \in Listings
    /\ folder_name_filter \in Filters
    /\ similarity_threshold \in Thresholds
    /\ matched_pairs = <<>>

FindSimilarSubdirs ==
    /\ pc = "match"
    /\ matched_pairs' = find_similar_subdirs(dir1, dir2, folder_name_filter, similarity_threshold)
    /\ pc' = "matched"
    /\ UNCHANGED <<dir1, dir2, folder_name_filter, similarity_threshold>>
    /\ UNCHANGED <<fileVars, orchVars, insVars>>

MatcherNext == FindSimilarSubdirs

SpecMatcher == MatcherInit /\ [][MatcherNext]_vars

(* Claims on the Similarity Matcher *)

\* C3: every returned triple has a score strictly above the supplied threshold,
\* and that score is the similarity ratio of the two names of the triple.
C3_ScoreAboveThreshold ==
    pc = "matched" =>
        \A i \in 1..Len(matched_pairs) :
            LET t == matched_pairs[i]
            IN  /\ RatGt(t[3], similarity_threshold)
                /\ RatEq(t[3], Ratio(lower(t[1][2]), lower(t[2][2])))

\* A run that returns two triples, one of them with a score below 1, while a
\* candidate that only reaches the threshold is left out
C3_Witness ==
    /\ pc = "matched"
    /\ similarity_threshold = <<7, 10>>
    /\ Len(matched_pairs) = 2
    /\ \E i \in 1..2 : RatEq(matched_pairs[i][3], <<4, 5>>)

\* C4: the second-list folders of the returned triples are pairwise distinct,
\* and so are the first-list folders.
C4_NoFolderMatchedTwice ==
    pc = "matched" =>
        \A i, j \in 1..Len(matched_pairs) :
            i # j => /\ matched_pairs[i][2] # matched_pairs[j][2]
                     /\ matched_pairs[i][1] # matched_pairs[j][1]

\* Two first-list folders whose best candidate is the same second-list folder
\* ("nov" and "NOV" against "nov"), the later one left with its second choice
C4_Witness ==
    /\ pc = "matched"
    /\ Len(matched_pairs) = 2
    /\ matched_pairs[1][1][2] = <<"n","o","v">>
    /\ matched_pairs[2][1][2] = <<"N","O","V">>
    /\ matched_pairs[1][2][2] = <<"n","o","v">>
    /\ matched_pairs[2][2][2] = <<"n","o">>

\* The similarity ratio of two folder names
Similarity(name1, name2) == Ratio(lower(name1), lower(name2))

\* The position, among the folders still unmatched, of the one the greedy rule
\* gives to name1: of those above the threshold the one of the largest ratio,
\* the earliest of several; 0 when none is above the threshold
GreedyChoice(name1, unmatched, threshold) ==
    LET above == {j \in DOMAIN unmatched : RatGt(Similarity(name1, unmatched[j]), threshold)}
    IN  IF above = {} THEN 0
        ELSE CHOOSE j \in above :
                \A i \in above :
                    /\ RatGe(Similarity(name1, unmatched[j]), Similarity(name1, unmatched[i]))
                    /\ i < j => RatGt(Similarity(name1, unmatched[j]), Similarity(name1, unmatched[i]))

\* The triples of the greedy rule for the first-list folders from position k on
RECURSIVE GreedyPairs(_, _, _, _)
GreedyPairs(subdirs1, k, unmatched, threshold) ==
    IF k > Len(subdirs1) THEN <<>>
    ELSE LET j == GreedyChoice(subdirs1[k], unmatched, threshold)
         IN  IF j = 0 THEN GreedyPairs(subdirs1, k + 1, unmatched, threshold)
             ELSE << <<Join("dir1", subdirs1[k]), Join("dir2", unmatched[j]),
                       Similarity(subdirs1[k], unmatched[j])>> >>
                  \o GreedyPairs(subdirs1, k + 1,
                                 Slice(unmatched, 1, j - 1) \o Slice(unmatched, j + 1, Len(unmatched)),
                                 threshold)

\* C16: find_similar_subdirs returns the triples of the greedy rule: the
\* first-list folders in listing order, each with the folder of the largest
\* ratio among the second-list folders no earlier one has taken (the earliest
\* of several) if that ratio is above the threshold, and otherwise left out
\* with no second-list folder taken.
C16_GreedyMatching ==
    pc = "matched" =>
        LET subdirs1 == get_first_level_subdirs(dir1, folder_name_filter)
            subdirs2 == get_first_level_subdirs(dir2, <<>>)
        IN  /\ Len(matched_pairs) = Len(GreedyPairs(subdirs1, 1, subdirs2, similarity_threshold))
            /\ \A i \in 1..Len(matched_pairs) :
                  LET t == matched_pairs[i]
                      g == GreedyPairs(subdirs1, 1, subdirs2, similarity_threshold)[i]
                  IN  t[1] = g[1] /\ t[2] = g[2] /\ RatEq(t[3], g[3])

\* "no" comes before "nov" in the first list and takes the only "nov" of the
\* second list with a ratio of 4/5; "nov", whose ratio with it is 1, is left
\* without a match
C16_Witness ==
    /\ pc = "matched"
    /\ get_first_level_subdirs(dir1, folder_name_filter) = << <<"n","o">>, <<"n","o","v">> >>
    /\ get_first_level_subdirs(dir2, <<>>) = << <<"n","o","v">> >>
    /\ Len(matched_pairs) = 1
    /\ matched_pairs[1][1] = Join("dir1", <<"n","o">>)
    /\ matched_pairs[1][2] = Join("dir2", <<"n","o","v">>)
    /\ RatEq(matched_pairs[1][3], <<4, 5>>)
    /\ RatGt(Similarity(<<"n","o","v">>, <<"n","o","v">>), matched_pairs[1][3])

----------------------------------------------------------------------------
(* insertPic2Excel.py: the workbook, as openpyxl loads and saves it          *)
(*                                                                           *)
(* A workbook on disk is [status, sheets]: status "ok", "missing" (no file)  *)
(* or "corrupt" (load_workbook raises).  A sheet is                          *)
(*   [name, cells, heights, images, charts]                                  *)
(* cells:   <<row, column>> -> [value, fill], for the cells that hold a      *)
(*          value or a style (the ones a save writes and a load reads);      *)
(*          columns A..N are 1..14, the marker column O is 15               *)
(* heights: row -> the row's height, for the rows with a height of their    *)
(*          own (customHeight), in quarter points                            *)
(* images, charts: the drawings, each                                       *)
(*   [path, kind, cell, from_row, to_row, has_height, height, px_height,    *)
(*    width, px_width]                                                      *)
(*   kind "cell": anchored by add_image to the address `cell` (a string);   *)
(*   kind "one", "two": a OneCellAnchor, TwoCellAnchor read from the file,  *)
(*   rows counted from 0; any other kind is an anchor of another type.      *)
(*   height is what drawing.height yields, px_height the pixel height of    *)
(*   the picture stored in the file, which a load reports as the height.    *)
(***************************************************************************)

\* range(1, target_sheet.max_row + 100)
Headroom == 100

\* COLUMNS_TO_FORMAT: A..N
NumFormatColumns == 14

\* MARKER_COLUMN_LETTER = 'O'
MarkerColumn == 15

\* the default row height of get_max_image_row, in EMU
DefaultRowEmu == 190500

\* EMU per pixel
EmuPerPixel == 9525

TARGET_MAX_WIDTH == 400

TARGET_MAX_HEIGHT == 400

SCORE_TARGET_YEAR == 100

PENALTY_EXCLUDE_YEAR == -200

SCORE_RECEIPT_BASE == 10

\* max_score = -999
InitialMaxScore == -999

TARGET_YEAR == <<"2","0","2","5">>

EXCLUDE_YEAR == <<"2","0","2","4">>

\* "Receipts", U+6536 U+636E, U+652F U+51FA U+6536 U+636E, "Invoice"
RECEIPT_KEYWORDS ==
    << <<"R","e","c","e","i","p","t","s">>,
       <<"<shou>","<ju>">>,
       <<"<zhi>","<chu>","<shou>","<ju>">>,
       <<"I","n","v","o","i","c","e">> >>

\* A cell without a value
NoneValue == "<None>"

\* str(value).strip() of the cell values of the model
Strip(v) ==
    CASE v = " "         -> ""
      [] v = " 2025-12 " -> "2025-12"
      [] OTHER           -> v

\* cell.value is not None and str(cell.value).strip() != ""
IsContent(v) == v # NoneValue /\ Strip(v) # ""

\* marker_cell.value is not None and str(marker_cell.value).strip() == current_month_marker
IsMarked(v, current_month_marker) == v # NoneValue /\ Strip(v) = current_month_marker

CellValue(sheet, row, col) ==
    IF <<row, col>> \in DOMAIN sheet.cells THEN sheet.cells[<<row, col>>].value
    ELSE NoneValue

\* Worksheet.max_row: the last row that holds a cell, 1 for an empty sheet
SheetMaxRow(sheet) ==
    IF DOMAIN sheet.cells = {} THEN 1
    ELSE Max({c[1] : c \in DOMAIN sheet.cells})

\* Decimal digits of n >= 0, as str(n)
RECURSIVE Decimal(_)
Decimal(n) ==
    LET d == <<"0","1","2","3","4","5","6","7","8","9">>[(n % 10) + 1]
    IN  IF n < 10 THEN <<d>> ELSE Append(Decimal(n \div 10), d)

DigitValue(c) ==
    CASE c = "0" -> 0 [] c = "1" -> 1 [] c = "2" -> 2 [] c = "3" -> 3 [] c = "4" -> 4
      [] c = "5" -> 5 [] c = "6" -> 6 [] c = "7" -> 7 [] c = "8" -> 8 [] c = "9" -> 9

RECURSIVE ParseDecimal(_)
ParseDecimal(digits) ==
    IF Len(digits) = 0 THEN 0
    ELSE 10 * ParseDecimal(Slice(digits, 1, Len(digits) - 1)) + DigitValue(digits[Len(digits)])

\* f'{col}{row}'
CellAddress(col_letter, row) == <<col_letter>> \o Decimal(row)

\* coordinate_from_string of a one-letter column address: <<column, row>>
coordinate_from_string(address) ==
    <<address[1], ParseDecimal(Slice(address, 2, Len(address)))>>

----------------------------------------------------------------------------
(* insertPic2Excel.py: get_max_image_row, resize_image_for_excel,          *)
(* adjust_row_height                                                       *)

\* units.points_to_pixels(h) = int(ceil(h * 96 / 72)), h in quarter points
points_to_pixels(quarter_points) == (quarter_points + 2) \div 3

\* The row a OneCellAnchor drawing of image_height_emu reaches, accumulating
\* row heights from end_row on (the while loop)
RECURSIVE AccumulateRows(_, _, _, _)
AccumulateRows(sheet, end_row, current_height_emu, image_height_emu) ==
    IF ~(current_height_emu < image_height_emu) THEN end_row
    ELSE LET row_height_emu ==
                 IF end_row \in DOMAIN sheet.heights
                 THEN points_to_pixels(sheet.heights[end_row]) * EmuPerPixel
                 ELSE DefaultRowEmu
             height == current_height_emu + row_height_emu
         IN  IF height >= image_height_emu THEN end_row
             ELSE AccumulateRows(sheet, end_row + 1, height, image_height_emu)

\* An estimate that takes every picture to end in the row of its anchor
AnchorRowOnly(sheet, drawing) ==
    CASE drawing.kind = "two" -> drawing.to_row + 1
      [] drawing.kind = "one" -> drawing.from_row + 1
      [] OTHER -> 0

\* image_end_row of one drawing, 0 for an anchor of another type (skipped)
DrawingEndRow(sheet, drawing) ==
    CASE drawing.kind = "two" -> drawing.to_row + 1
      [] drawing.kind = "one" ->
            IF drawing.has_height
            THEN AccumulateRows(sheet, drawing.from_row + 1, 0, drawing.height)
            ELSE drawing.from_row + 1
      [] OTHER -> 0

\* A scan of the pictures alone, the charts left out
MaxPictureRow(sheet) ==
    Max({0} \cup {DrawingEndRow(sheet, sheet.images[i]) : i \in DOMAIN sheet.images})

get_max_image_row(sheet) ==
    LET drawings == sheet.images \o sheet.charts
    IN  Max({0} \cup {DrawingEndRow(sheet, drawings[i]) : i \in DOMAIN drawings})

\* The products original * scale_ratio whose double falls just below the
\* integer the exact product is, so that int() yields one less:
\* <<original, 400, larger side>>, for the pictures of the model
FloatFallsShort == {<<539, 400, 539>>, <<145, 400, 464>>}

\* int(original * scale_ratio), scale_ratio = num / den computed in doubles
ScaledInt(original, num, den) ==
    LET exact == (original * num) \div den
    IN  IF <<original, num, den>> \in FloatFallsShort THEN exact - 1 ELSE exact

\* A scaling without the 1.0 in min(): small pictures are blown up
ResizeWithoutCap(picture) ==
    IF ~picture.loads \/ picture.width = 0 \/ picture.height = 0 THEN NoName
    ELSE LET w == picture.width
             h == picture.height
         IN  IF TARGET_MAX_WIDTH * h <= TARGET_MAX_HEIGHT * w
             THEN <<ScaledInt(w, TARGET_MAX_WIDTH, w), ScaledInt(h, TARGET_MAX_WIDTH, w)>>
             ELSE <<ScaledInt(w, TARGET_MAX_HEIGHT, h), ScaledInt(h, TARGET_MAX_HEIGHT, h)>>

\* <<new_width, new_height>>: scale_ratio = min(400 / w, 400 / h, 1.0).
\* A picture that cannot be read, or has a zero side, raises inside the
\* function, which then returns None (NoName here).
resize_image_for_excel(picture) ==
    IF ~picture.loads \/ picture.width = 0 \/ picture.height = 0 THEN NoName
    ELSE LET w == picture.width
             h == picture.height
         IN  IF w <= TARGET_MAX_WIDTH /\ h <= TARGET_MAX_HEIGHT THEN <<w, h>>
             ELSE IF TARGET_MAX_WIDTH * h <= TARGET_MAX_HEIGHT * w
                  THEN <<ScaledInt(w, TARGET_MAX_WIDTH, w), ScaledInt(h, TARGET_MAX_WIDTH, w)>>
                  ELSE <<ScaledInt(w, TARGET_MAX_HEIGHT, h), ScaledInt(h, TARGET_MAX_HEIGHT, h)>>

\* required_height = image_height_px * 0.75, in quarter points 3 * px
adjust_row_height(sheet, row, image_height_px) ==
    LET required_height == 3 * image_height_px
    IN  IF row \notin DOMAIN sheet.heights
           \/ required_height > sheet.heights[row]
        THEN [sheet EXCEPT !.heights =
                 [r \in DOMAIN sheet.heights \cup {row} |->
                     IF r = row THEN required_height ELSE sheet.heights[r]]]
        ELSE sheet

----------------------------------------------------------------------------
(* insertPic2Excel.py: find_first_empty_row_and_format (the Worksheet      *)
(* Selector and Row Tagger).  Scores are exact rationals <<num, den>>.      *)

\* max(0.0, ratio of lower_name and keyword.lower() for every keyword)
RECURSIVE MaxReceiptRatio(_, _, _)
MaxReceiptRatio(lower_name, k, max_receipt_ratio) ==
    IF k > Len(RECEIPT_KEYWORDS) THEN max_receipt_ratio
    ELSE LET ratio == Ratio(lower_name, lower(RECEIPT_KEYWORDS[k]))
         IN  MaxReceiptRatio(lower_name, k + 1,
                 IF RatGt(ratio, max_receipt_ratio) THEN ratio ELSE max_receipt_ratio)

\* current_score of a sheet name
SheetScore(sheet_name) ==
    LET lower_name == lower(sheet_name)
        years == (IF Contains(lower_name, EXCLUDE_YEAR) THEN PENALTY_EXCLUDE_YEAR ELSE 0)
                 + (IF Contains(lower_name, TARGET_YEAR) THEN SCORE_TARGET_YEAR ELSE 0)
        ratio == MaxReceiptRatio(lower_name, 1, <<0, 1>>)
    IN  <<years * ratio[2] + SCORE_RECEIPT_BASE * ratio[1], ratio[2]>>

\* The sheet names of the workbooks of the model
SheetName(n) == CASE n = 1 -> <<"R","e","c","e","i","p","t","s"," ","2","0","2","5">>
                  [] n = 2 -> <<"S","u","m","m","a","r","y"," ","2","0","2","4">>
                  [] n = 3 -> <<"2","0","2","4">>
                  [] n = 4 -> <<"I","n","v","o","i","c","e">>
                  [] n = 5 -> <<"S","h","e","e","t">>
                  [] n = 6 -> <<"2","0","2","5"," ","R","e","c","e","i","p","t","s">>

SheetNames == {SheetName(n) : n \in 1..6}

\* A scoring loop that lets a later sheet of the same score win
ScoreBeatsOrTies(current_score, max_score) == ~RatGt(max_score, current_score)

\* current_score > max_score
ScoreBeats(current_score, max_score) == RatGt(current_score, max_score)

\* The scoring loop from sheet i on: <<index of the best sheet (0: None), max_score>>
RECURSIVE ScoreSheets(_, _, _, _)
ScoreSheets(sheets, i, best, max_score) ==
    IF i > Len(sheets) THEN <<best, max_score>>
    ELSE LET current_score == SheetScore(sheets[i].name)
         IN  IF ScoreBeats(current_score, max_score)
             THEN ScoreSheets(sheets, i + 1, i, current_score)
             ELSE ScoreSheets(sheets, i + 1, best, max_score)

\* Index of the selected sheet, 0 when none is selected
BestSheet(sheets) ==
    LET scored == ScoreSheets(sheets, 1, 0, <<InitialMaxScore, 1>>)
    IN  IF scored[1] = 0 \/ ~RatGt(scored[2], <<PENALTY_EXCLUDE_YEAR, 1>>) THEN 0
        ELSE scored[1]

\* A scan that counts a row by its content in A..N alone
ScanRowContentOnly(sheet, row_num, col, current_month_marker, counted) ==
    \E c \in col..NumFormatColumns : IsContent(CellValue(sheet, row_num, c))

\* The inner loop over the columns A..N of one row, from column col on:
\* TRUE when the row sets last_content_row
RECURSIVE ScanRow(_, _, _, _, _)
ScanRow(sheet, row_num, col, current_month_marker, counted) ==
    IF col > NumFormatColumns THEN counted
    ELSE IF IsContent(CellValue(sheet, row_num, col)) THEN TRUE
    ELSE IF col = 1 /\ IsMarked(CellValue(sheet, row_num, MarkerColumn), current_month_marker)
         THEN ScanRow(sheet, row_num, col + 1, current_month_marker, TRUE)
         ELSE ScanRow(sheet, row_num, col + 1, current_month_marker, counted)

\* The rows that hold a cell with a value or a style; any other row has
\* neither content nor a marker, and the scan passes over it
RowsWithCells(sheet) == {c[1] : c \in DOMAIN sheet.cells}

\* last_content_row after the scan of range(1, max_row + 100)
LastContentRow(sheet, current_month_marker) ==
    Max({0} \cup {row_num \in 1..(SheetMaxRow(sheet) + Headroom - 1) :
                      /\ row_num \in RowsWithCells(sheet)
                      /\ ScanRow(sheet, row_num, 1, current_month_marker, FALSE)})

LastKnownRow(sheet, current_month_marker) ==
    LET max_image_row == IF Len(sheet.images) > 0 THEN get_max_image_row(sheet) ELSE 0
    IN  Max({LastContentRow(sheet, current_month_marker), max_image_row})

\* first_untagged_empty_row, after the check of the row's own marker
FirstUntaggedEmptyRow(sheet, current_month_marker) ==
    LET row == LastKnownRow(sheet, current_month_marker) + 1
    IN  IF IsMarked(CellValue(sheet, row, MarkerColumn), current_month_marker)
        THEN row + 1 ELSE row

\* Fill A..N of the row green and write the marker into column O
FormatAndTag(sheet, row, current_month_marker) ==
    LET touched == {<<row, col>> : col \in 1..MarkerColumn}
    IN  [sheet EXCEPT !.cells =
            [c \in DOMAIN sheet.cells \cup touched |->
                IF c \in touched
                THEN IF c[2] = MarkerColumn
                     THEN [value |-> current_month_marker,
                           fill |-> IF c \in DOMAIN sheet.cells THEN sheet.cells[c].fill ELSE "none"]
                     ELSE [value |-> CellValue(sheet, row, c[2]), fill |-> "green"]
                ELSE sheet.cells[c]]]

\* Lines 308-330: the row is formatted and tagged, the workbook saved, and
\* <<sheet name, next_row_start_cell>> returned
TagRow(disk, best, row, current_month_marker) ==
    [disk |-> [disk EXCEPT !.sheets[best] = FormatAndTag(@, row, current_month_marker)],
     result |-> <<disk.sheets[best].name, CellAddress("A", row + 1)>>]

\* How workbook.save(path) may end: the file is written; the file cannot be
\* opened for writing (it is locked) and the call raises at once; or the
\* file, which is emptied as it is opened, cannot be written to the end (the
\* disk is full) and the call raises with a part of the archive on disk
SaveOutcomes == {"saved", "refused", "broken"}

\* A failing save that leaves what it was to write on disk
SavedAnyway(disk, written, outcome) == written

\* The file after workbook.save(path), written being the workbook in memory;
\* a part of an archive cannot be loaded
Saved(disk, written, outcome) ==
    CASE outcome = "saved"   -> written
      [] outcome = "refused" -> disk
      [] OTHER               -> [status |-> "corrupt", sheets |-> <<>>]

\* Lines 235-323, for the sheet selected (best, 0 for none) and the way the
\* save ends; the except of the save returns None
TagSheet(disk, best, current_month_marker, outcome) ==
    IF best = 0 THEN [disk |-> disk, result |-> NoName]
    ELSE \* the row is tagged in memory, then saved
         LET tagged == TagRow(disk, best,
                              FirstUntaggedEmptyRow(disk.sheets[best], current_month_marker),
                              current_month_marker)
         IN  [disk   |-> Saved(disk, tagged.disk, outcome),
              result |-> IF outcome = "saved" THEN tagged.result ELSE NoName]

\* [disk, result]: the workbook on disk afterwards and the returned value,
\* None (NoName) or <<sheet name, next_row_start_cell>>.  outcome: how
\* workbook.save ends.
find_first_empty_row_and_format(disk, current_month_marker, outcome) ==
    IF disk.status # "ok" THEN [disk |-> disk, result |-> NoName]
    ELSE TagSheet(disk, BestSheet(disk.sheets), current_month_marker, outcome)

----------------------------------------------------------------------------
(* insertPic2Excel.py: insert_images_to_excel_with_pdf (the Inserter)      *)
(*                                                                         *)
(* An entry of file_paths is the path together with what the disk holds    *)
(* there: [name, exists, ext, mkdir_ok, picture, opens, pages].  picture   *)
(* is [loads, width, height]: whether ExcelImage reads the file, and its   *)
(* pixel size.  opens: whether fitz.open succeeds; pages: for every page   *)
(* [raster_ok, picture], whether load_page, get_pixmap and pix.save        *)
(* succeed and the PNG they write.  mkdir_ok: whether os.makedirs of the   *)
(* _temp_img directory beside the file succeeds.                           *)

ALLOWED_EXTENSIONS ==
    { <<".","p","n","g">>, <<".","j","p","g">>, <<".","j","p","e","g">> }

PdfExtension == <<".","p","d","f">>

\* sheet.add_image(img, anchor_cell) of a resized picture
add_image(sheet, path, anchor_cell, img, picture) ==
    [sheet EXCEPT !.images = Append(@,
        [path |-> path, kind |-> "cell", cell |-> anchor_cell, from_row |-> 0, to_row |-> 0,
         has_height |-> TRUE, height |-> img[2], px_height |-> picture.height,
         width |-> img[1], px_width |-> picture.width])]

\* The cursor and the count after an insertion that raised (lines 435, 459)
SkipRowOnFailure(sheet, row, count) ==
    [sheet |-> sheet, current_row |-> row + 1, success_count |-> count]

\* The cursor and the count after an insertion that raised: as they were
AfterFailure(sheet, row, count) ==
    [sheet |-> sheet, current_row |-> row, success_count |-> count]

\* Lines 427-436 and 451-460: resize, adjust the row, anchor, advance.
\* img = None makes img.height raise before anything is changed.
TryInsert(sheet, col, row, count, picture, path) ==
    LET img == resize_image_for_excel(picture)
    IN  IF img = NoName THEN AfterFailure(sheet, row, count)
        ELSE [sheet |-> add_image(adjust_row_height(sheet, row, img[2]),
                                  path, CellAddress(col, row), img, picture),
              current_row |-> row + 1,
              success_count |-> count + 1]

\* workbook.save: an image anchored to an address is written as a
\* OneCellAnchor; a load reports the stored picture's size as the image's
SavedDrawing(drawing) ==
    IF drawing.kind = "cell"
    THEN [drawing EXCEPT !.kind = "one", !.cell = <<>>,
                         !.from_row = coordinate_from_string(drawing.cell)[2] - 1,
                         !.height = drawing.px_height, !.width = drawing.px_width]
    ELSE drawing

SavedSheets(sheets) ==
    [i \in DOMAIN sheets |->
        [sheets[i] EXCEPT !.images = [j \in DOMAIN sheets[i].images |-> SavedDrawing(sheets[i].images[j])]]]

\* workbook[actual_sheet_name]
SheetIndex(sheets, name) == CHOOSE i \in DOMAIN sheets : sheets[i].name = name

RECURSIVE SumLens(_, _)
SumLens(sheets, i) ==
    IF i > Len(sheets) THEN 0 ELSE Len(sheets[i].images) + SumLens(sheets, i + 1)

\* The number of images embedded in the workbook on disk
EmbeddedImages(disk) == SumLens(disk.sheets, 1)

\* The rows of the selected sheet whose marker cell holds the tag
TaggedRows(disk, tag) ==
    IF disk.status # "ok" \/ BestSheet(disk.sheets) = 0 THEN {}
    ELSE LET sheet == disk.sheets[BestSheet(disk.sheets)]
         IN  {c[1] : c \in {d \in DOMAIN sheet.cells :
                               d[2] = MarkerColumn /\ IsMarked(sheet.cells[d].value, tag)}}

----------------------------------------------------------------------------
(* The workbooks, the files and the months of the model *)

MaxFiles == 2

MaxRuns == 2

\* The values of datetime.now().strftime("%Y-%m"), in order
Months == <<"2025-11", "2025-12">>

Value(v) == [value |-> v, fill |-> "none"]

NoDrawings == <<>>

\* "Receipts 2025" with content in rows 1 to 3
SheetReceipts ==
    [name |-> SheetName(1),
     cells |-> (<<1, 1>> :> Value("x")) @@ (<<2, 2>> :> Value("x")) @@ (<<3, 14>> :> Value("x")),
     heights |-> <<>>, images |-> NoDrawings, charts |-> NoDrawings]

SheetSummary ==
    [name |-> SheetName(2),
     cells |-> (<<1, 1>> :> Value("x")) @@ (<<6, 16>> :> Value("x")),
     heights |-> <<>>, images |-> NoDrawings, charts |-> NoDrawings]

\* Scores -200: never selected
SheetOldYear ==
    [name |-> SheetName(3), cells |-> (<<1, 1>> :> Value("x")),
     heights |-> <<>>, images |-> NoDrawings, charts |-> NoDrawings]

\* An image anchored to row 3, which is 30 points high, a chart down to row 6,
\* and in row 2 a blank in B and a tag for December, typed with blanks, in O
SheetInvoice ==
    [name |-> SheetName(4),
     cells |-> (<<1, 1>> :> Value("x")) @@ (<<2, 2>> :> Value(" ")) @@ (<<2, 15>> :> Value(" 2025-12 ")),
     heights |-> (3 :> 120),
     images |-> << [path |-> <<"old.png", 0>>, kind |-> "one", cell |-> <<>>, from_row |-> 2,
                    to_row |-> 0, has_height |-> TRUE, height |-> 100, px_height |-> 100,
                    width |-> 60, px_width |-> 60] >>,
     charts |-> << [path |-> <<"chart", 0>>, kind |-> "two", cell |-> <<>>, from_row |-> 3,
                    to_row |-> 5, has_height |-> TRUE, height |-> 8, px_height |-> 8,
                    width |-> 15, px_width |-> 15] >>]

\* "2025 Receipts": the score of "Receipts 2025"
SheetYearFirst ==
    [name |-> SheetName(6), cells |-> (<<2, 3>> :> Value("x")),
     heights |-> <<>>, images |-> NoDrawings, charts |-> NoDrawings]

\* "Receipts 2025" with two pictures: one of height 100 anchored to row 2,
\* where rows 2 and 3 are hidden (height 0) and row 4 is 0.75 points high,
\* and one of height 200000 anchored to row 5, with rows of the default height
SheetHidden ==
    [name |-> SheetName(1),
     cells |-> (<<1, 1>> :> Value("x")),
     heights |-> (2 :> 0) @@ (3 :> 0) @@ (4 :> 3),
     images |-> << [path |-> <<"h.png", 0>>, kind |-> "one", cell |-> <<>>, from_row |-> 1,
                    to_row |-> 0, has_height |-> TRUE, height |-> 100, px_height |-> 100,
                    width |-> 60, px_width |-> 60],
                   [path |-> <<"tall.png", 0>>, kind |-> "one", cell |-> <<>>, from_row |-> 4,
                    to_row |-> 0, has_height |-> TRUE, height |-> 200000, px_height |-> 200000,
                    width |-> 60, px_width |-> 60] >>,
     charts |-> NoDrawings]

\* "Invoice" with a chart down to row 6 and no picture
SheetCharts ==
    [name |-> SheetName(4),
     cells |-> (<<1, 1>> :> Value("x")),
     heights |-> <<>>, images |-> NoDrawings,
     charts |-> << [path |-> <<"chart", 0>>, kind |-> "two", cell |-> <<>>, from_row |-> 3,
                    to_row |-> 5, has_height |-> TRUE, height |-> 8, px_height |-> 8,
                    width |-> 15, px_width |-> 15] >>]

\* A new workbook's sheet
SheetEmpty ==
    [name |-> SheetName(5), cells |-> <<>>,
     heights |-> <<>>, images |-> NoDrawings, charts |-> NoDrawings]

Book(sheets) == [status |-> "ok", sheets |-> sheets]

MissingBook == [status |-> "missing", sheets |-> <<>>]

CorruptBook == [status |-> "corrupt", sheets |-> <<>>]

Workbooks ==
    { Book(<<SheetReceipts>>), Book(<<SheetSummary, SheetReceipts>>), Book(<<SheetInvoice>>),
      Book(<<SheetEmpty>>), Book(<<SheetOldYear>>), Book(<<SheetReceipts, SheetYearFirst>>),
      Book(<<SheetHidden>>), Book(<<SheetCharts>>), MissingBook, CorruptBook }

Picture(w, h) == [loads |-> TRUE, width |-> w, height |-> h]

Unreadable == [loads |-> FALSE, width |-> 0, height |-> 0]

Page(picture) == [raster_ok |-> TRUE, picture |-> picture]

FailingPage == [raster_ok |-> FALSE, picture |-> Unreadable]

ImageFile(name, ext, picture) ==
    [name |-> name, exists |-> TRUE, ext |-> ext, mkdir_ok |-> TRUE,
     picture |-> picture, opens |-> FALSE, pages |-> <<>>]

PdfFile(name, opens, pages) ==
    [name |-> name, exists |-> TRUE, ext |-> PdfExtension, mkdir_ok |-> TRUE,
     picture |-> Unreadable, opens |-> opens, pages |-> pages]

FPng == ImageFile("a.png", <<".","p","n","g">>, Picture(100, 50))

FJpg == ImageFile("b.JPG", <<".","J","P","G">>, Picture(800, 600))

FWide == ImageFile("w.jpeg", <<".","j","p","e","g">>, Picture(539, 100))

FBad == ImageFile("bad.png", <<".","p","n","g">>, Unreadable)

FMissing == [ImageFile("gone.png", <<".","p","n","g">>, Unreadable) EXCEPT !.exists = FALSE]

FTxt == ImageFile("n.txt", <<".","t","x","t">>, Unreadable)

FNoMkdir == [ImageFile("ro/c.png", <<".","p","n","g">>, Picture(100, 50)) EXCEPT !.mkdir_ok = FALSE]

FPdf == PdfFile("d.pdf", TRUE, <<Page(Picture(464, 145)), Page(Picture(100, 50))>>)

\* Its second page cannot be rendered
FPdfRaster == PdfFile("r.pdf", TRUE, <<Page(Picture(100, 50)), FailingPage, Page(Picture(100, 50))>>)

\* The PNG of its first page cannot be read back
FPdfInsert == PdfFile("i.pdf", TRUE, <<Page(Unreadable), Page(Picture(100, 50))>>)

FPdfNoOpen == PdfFile("x.pdf", FALSE, <<>>)

InsertPool ==
    {FPng, FJpg, FWide, FBad, FMissing, FTxt, FNoMkdir, FPdf, FPdfRaster, FPdfInsert, FPdfNoOpen}

\* Three PNGs and a PDF of two pages
ExampleList ==
    << FPng, ImageFile("a2.png", <<".","p","n","g">>, Picture(100, 50)),
       ImageFile("a3.png", <<".","p","n","g">>, Picture(100, 50)), FPdf >>

MixedList == << FPng, FMissing, FTxt, FPdfInsert, FBad, FPdfRaster, FJpg >>

FileLists == SeqsUpTo(InsertPool, MaxFiles) \cup {ExampleList, MixedList}

----------------------------------------------------------------------------
(* The Tagger and the Inserter as steps *)

\* A run of the Tagger or the Inserter, as it ended
Run(kind, result, saved, disk) ==
    [kind |-> kind, month |-> now, result |-> result, saved |-> saved,
     images |-> EmbeddedImages(disk)]

\* Before the first run, with one of the lists to insert
InsertStart(lists) ==
    /\ pc = "ins"
    /\ now = Months[1]
    /\ excel \in Workbooks
    /\ file_paths \in lists
    /\ runs = <<>>
    /\ workbook = <<>>
    /\ actual_sheet_name = NoName
    /\ col_str = ""
    /\ row_idx = 0
    /\ current_row = 0
    /\ success_count = 0
    /\ file_idx = 0
    /\ page_num = 0
    /\ open_docs = {}
    /\ temp_img = {}
    /\ MatcherIdle
    /\ FilesIdle
    /\ OrchIdle

InsertInit == InsertStart(FileLists)

\* The month changes between two runs
Tick ==
    /\ pc = "ins"
    /\ \E m \in 1..(Len(Months) - 1) : now = Months[m] /\ now' = Months[m + 1]
    /\ UNCHANGED <<pc, matcherVars, fileVars, orchVars>>
    /\ UNCHANGED <<excel, file_paths, runs, workbook, actual_sheet_name, col_str, row_idx,
                   current_row, success_count, file_idx, page_num, open_docs, temp_img>>

\* find_first_empty_row_and_format(excel_path), called on its own
TagOnly(max_runs) ==
    /\ pc = "ins"
    /\ Len(runs) < max_runs
    /\ \E outcome \in SaveOutcomes :
         \E tagged \in {find_first_empty_row_and_format(excel, now, outcome)} :
             /\ excel' = tagged.disk
             /\ runs' = Append(runs, Run("tag", tagged.result, tagged.result # NoName, tagged.disk))
    /\ UNCHANGED <<pc, matcherVars, fileVars, orchVars>>
    /\ UNCHANGED <<now, file_paths, workbook, actual_sheet_name, col_str, row_idx,
                   current_row, success_count, file_idx, page_num, open_docs, temp_img>>

\* Lines 349-384: the first load is dropped; the Tagger runs; on None, or
\* when the workbook cannot be loaded again, the function returns
InsBegin(max_runs) ==
    /\ pc = "ins"
    /\ Len(runs) < max_runs
    /\ \E outcome \in SaveOutcomes, reload_ok \in BOOLEAN :
         \E tagged \in {find_first_empty_row_and_format(excel, now, outcome)} :
         LET start == coordinate_from_string(tagged.result[2])
         IN  /\ excel' = tagged.disk
             /\ IF tagged.result = NoName \/ ~reload_ok
                THEN /\ runs' = Append(runs, Run("insert", tagged.result, FALSE, tagged.disk))
                     /\ workbook' = <<>>
                     /\ actual_sheet_name' = NoName
                     /\ col_str' = ""
                     /\ row_idx' = 0
                     /\ file_idx' = 0
                     /\ UNCHANGED pc
                ELSE /\ workbook' = tagged.disk.sheets
                     /\ actual_sheet_name' = tagged.result[1]
                     /\ col_str' = start[1]
                     /\ row_idx' = start[2]
                     /\ file_idx' = 1
                     /\ pc' = "ins-loop"
                     /\ UNCHANGED runs
             /\ current_row' = row_idx'
    /\ success_count' = 0
    /\ page_num' = 0
    /\ UNCHANGED <<matcherVars, fileVars, orchVars>>
    /\ UNCHANGED <<now, file_paths, open_docs, temp_img>>

\* The sheet the Inserter writes to, and the workbook with that sheet replaced
InsSheet == workbook[SheetIndex(workbook, actual_sheet_name)]

WithSheet(sheet) == [workbook EXCEPT ![SheetIndex(workbook, actual_sheet_name)] = sheet]

\* Lines 389-402, 404-407 and 441-460: one file of the list.  A missing file
\* and an extension that is not supported are skipped; os.makedirs is outside
\* every try, its error leaves the function; a PDF is opened, and skipped if
\* that fails; a picture is inserted.
InsFile ==
    /\ pc = "ins-loop"
    /\ file_idx <= Len(file_paths)
    /\ LET file == file_paths[file_idx]
           file_ext == lower(file.ext)
           done == TryInsert(InsSheet, col_str, current_row, success_count,
                             file.picture, <<file.name, 0>>)
       IN  IF ~file.exists
           THEN /\ file_idx' = file_idx + 1
                /\ UNCHANGED <<pc, workbook, current_row, success_count, page_num, open_docs>>
           ELSE IF ~file.mkdir_ok
           THEN /\ pc' = "ins-raised"
                /\ UNCHANGED <<file_idx, workbook, current_row, success_count, page_num, open_docs>>
           ELSE IF file_ext = PdfExtension
           THEN IF file.opens
                THEN /\ pc' = "ins-pdf"
                     /\ open_docs' = open_docs \cup {file.name}
                     /\ page_num' = 0
                     /\ UNCHANGED <<file_idx, workbook, current_row, success_count>>
                ELSE /\ file_idx' = file_idx + 1
                     /\ UNCHANGED <<pc, workbook, current_row, success_count, page_num, open_docs>>
           ELSE IF file_ext \notin ALLOWED_EXTENSIONS
           THEN /\ file_idx' = file_idx + 1
                /\ UNCHANGED <<pc, workbook, current_row, success_count, page_num, open_docs>>
           ELSE /\ workbook' = WithSheet(done.sheet)
                /\ current_row' = done.current_row
                /\ success_count' = done.success_count
                /\ file_idx' = file_idx + 1
                /\ UNCHANGED <<pc, page_num, open_docs>>
    /\ UNCHANGED <<matcherVars, fileVars, orchVars>>
    /\ UNCHANGED <<now, excel, file_paths, runs, actual_sheet_name, col_str, row_idx, temp_img>>

\* Lines 409-436: one page.  An error of load_page, get_pixmap or pix.save
\* is caught by the outer except (441-443), which goes on to the next file
\* without closing the document; an error of the insertion is caught by the
\* inner except, and the page loop goes on.
InsPage ==
    /\ pc = "ins-pdf"
    /\ page_num < Len(file_paths[file_idx].pages)
    /\ LET file == file_paths[file_idx]
           page == file.pages[page_num + 1]
           done == TryInsert(InsSheet, col_str, current_row, success_count,
                             page.picture, <<file.name, page_num + 1>>)
       IN  IF ~page.raster_ok
           THEN /\ pc' = "ins-loop"
                /\ file_idx' = file_idx + 1
                /\ UNCHANGED <<workbook, current_row, success_count, page_num, temp_img>>
           ELSE /\ temp_img' = temp_img \cup {<<file.name, page_num + 1>>}
                /\ workbook' = WithSheet(done.sheet)
                /\ current_row' = done.current_row
                /\ success_count' = done.success_count
                /\ page_num' = page_num + 1
                /\ UNCHANGED <<pc, file_idx>>
    /\ UNCHANGED <<matcherVars, fileVars, orchVars>>
    /\ UNCHANGED <<now, excel, file_paths, runs, actual_sheet_name, col_str, row_idx, open_docs>>

\* Lines 438-439: after the last page, pdf_doc.close() and the next file
InsPdfEnd ==
    /\ pc = "ins-pdf"
    /\ page_num = Len(file_paths[file_idx].pages)
    /\ open_docs' = open_docs \ {file_paths[file_idx].name}
    /\ file_idx' = file_idx + 1
    /\ pc' = "ins-loop"
    /\ UNCHANGED <<matcherVars, fileVars, orchVars>>
    /\ UNCHANGED <<now, excel, file_paths, runs, workbook, actual_sheet_name, col_str, row_idx,
                   current_row, success_count, page_num, temp_img>>

\* Lines 463-469: workbook.save(excel_path); its error is caught
InsSave ==
    /\ pc = "ins-loop"
    /\ file_idx > Len(file_paths)
    /\ \E outcome \in SaveOutcomes :
         /\ excel' = Saved(excel, [status |-> "ok", sheets |-> SavedSheets(workbook)], outcome)
         /\ runs' = Append(runs, Run("insert", <<actual_sheet_name, CellAddress(col_str, row_idx)>>,
                                     outcome = "saved", excel'))
    /\ pc' = "ins"
    /\ UNCHANGED <<matcherVars, fileVars, orchVars>>
    /\ UNCHANGED <<now, file_paths, workbook, actual_sheet_name, col_str, row_idx,
                   current_row, success_count, file_idx, page_num, open_docs, temp_img>>

\* One call of the Inserter
InsertOnce == InsBegin(1)

InsertNext == InsertOnce \/ InsFile \/ InsPage \/ InsPdfEnd \/ InsSave

SpecInsert == InsertInit /\ [][InsertNext]_vars

\* The files of the monthly runs
MonthlyLists == { <<>>, <<FPng>>, <<FBad, FPdf, FJpg>> }

TaggerInit == InsertStart(MonthlyLists)

TagAgain == TagOnly(MaxRuns)

InsertAgain == InsBegin(MaxRuns)

TaggerNext == Tick \/ TagAgain \/ InsertAgain \/ InsFile \/ InsPage \/ InsPdfEnd \/ InsSave

SpecTagger == TaggerInit /\ [][TaggerNext]_vars

----------------------------------------------------------------------------
(* Claims on the Tagger and the Inserter *)

\* C1: when find_first_empty_row_and_format runs twice in a row in the same
\* month, both runs succeeding and nothing else touching the workbook, the
\* second run tags no other row: the rows of the selected sheet that carry
\* the month's tag in column O are the same after it as before it.
C1_RowTagIdempotent ==
    [][ ( /\ runs' # runs
          /\ Len(runs) >= 1
          /\ runs[Len(runs)].kind = "tag" /\ runs'[Len(runs')].kind = "tag"
          /\ runs[Len(runs)].month = now
          /\ runs[Len(runs)].saved /\ runs'[Len(runs')].saved )
        => TaggedRows(excel', now) = TaggedRows(excel, now) ]_vars

\* C2: when insert_images_to_excel_with_pdf runs twice in a row in the same
\* month on the same workbook with the same files, and both runs save, the
\* workbook holds as many images after the second run as after the first.
C2_NoDuplicateInsertions ==
    \A i \in 1..(Len(runs) - 1) :
        ( /\ runs[i].kind = "insert" /\ runs[i + 1].kind = "insert"
          /\ runs[i].month = runs[i + 1].month
          /\ runs[i].saved /\ runs[i + 1].saved )
        => runs[i + 1].images = runs[i].images

\* The images the running (or last) call has added, in the order added
Inserted == SelectSeq(InsSheet.images, LAMBDA d : d.kind = "cell")

\* The row an added image is anchored to
AnchorRow(drawing) == coordinate_from_string(drawing.cell)[2]

\* The place of an image's source in the input: <<index of the file, page>>
InputPlace(drawing) ==
    <<CHOOSE k \in DOMAIN file_paths : file_paths[k].name = drawing.path[1], drawing.path[2]>>

ComesBefore(p, q) == p[1] < q[1] \/ (p[1] = q[1] /\ p[2] < q[2])

\* C8: at every point of a run of the Inserter that got the start row r from
\* the Tagger, the images inserted so far are anchored to the rows r, r+1,
\* r+2, ... without a gap, in the order of the input (pages in page order at
\* their PDF's place), and the cursor is r plus their number; three PNGs and
\* a PDF of two pages from row 5 end on the rows 5 to 9 with the cursor at 10.
C8_ConsecutivePlacement ==
    workbook # <<>> =>
        /\ \A i \in DOMAIN Inserted : AnchorRow(Inserted[i]) = row_idx + i - 1
        /\ \A i, j \in DOMAIN Inserted :
               i < j => ComesBefore(InputPlace(Inserted[i]), InputPlace(Inserted[j]))
        /\ current_row = row_idx + Len(Inserted)
        /\ success_count = Len(Inserted)
        /\ (file_paths = ExampleList /\ row_idx = 5 /\ file_idx > Len(file_paths))
               => /\ [i \in DOMAIN Inserted |-> AnchorRow(Inserted[i])] = <<5, 6, 7, 8, 9>>
                  /\ current_row = 10

\* A run over a list with a missing file, an unsupported one, two failing
\* insertions and an aborted PDF has ended with four images on four rows
C8_Witness ==
    /\ pc = "ins"
    /\ file_paths = MixedList
    /\ Len(runs) = 1
    /\ runs[1].saved
    /\ Len(Inserted) = 4
    /\ current_row = row_idx + 4

\* C9: whenever the Inserter is at the head of its loop, about to take the
\* next file or to save, every PDF document it opened has been closed.
C9_PdfClosedBeforeNextFile ==
    pc \in {"ins-loop", "ins"} => open_docs = {}

\* C10: for every PDF the Inserter has gone through, each page that can itself
\* be rendered, written and inserted is in the sheet, whatever happened to
\* the other pages of that PDF.
C10_PageFailureIsolated ==
    workbook # <<>> =>
        \A k \in DOMAIN file_paths :
            ( /\ k < file_idx
              /\ file_paths[k].exists /\ file_paths[k].mkdir_ok
              /\ lower(file_paths[k].ext) = PdfExtension /\ file_paths[k].opens )
            => \A p \in DOMAIN file_paths[k].pages :
                   ( /\ file_paths[k].pages[p].raster_ok
                     /\ resize_image_for_excel(file_paths[k].pages[p].picture) # NoName )
                   => \E i \in DOMAIN Inserted : Inserted[i].path = <<file_paths[k].name, p>>

\* The score the selection rule gives a sheet name: -200 for the excluded
\* year, +100 for the target year, 10 times the best keyword ratio
RuleScore(sheet_name) ==
    LET name == lower(sheet_name)
        ratios == {Ratio(name, lower(RECEIPT_KEYWORDS[k])) : k \in DOMAIN RECEIPT_KEYWORDS}
        best == CHOOSE r \in ratios : \A q \in ratios : ~RatGt(q, r)
        years == (IF Contains(name, EXCLUDE_YEAR) THEN -200 ELSE 0)
                 + (IF Contains(name, TARGET_YEAR) THEN 100 ELSE 0)
    IN  <<years * best[2] + 10 * best[1], best[2]>>

\* current_score of the Tagger for the sheet names of the model
ScoreTable == [sheet_name \in SheetNames |-> SheetScore(sheet_name)]

\* The rule's scores of the sheet names of the model
RuleScores == [sheet_name \in SheetNames |-> RuleScore(sheet_name)]

\* The sheet the rule selects: the first of those with the highest score, if
\* that score exceeds -200; 0 for none
RuleSelects(sheets) ==
    LET top == {i \in DOMAIN sheets :
                   \A j \in DOMAIN sheets :
                       ~RatGt(RuleScores[sheets[j].name], RuleScores[sheets[i].name])}
    IN  IF top = {} THEN 0
        ELSE IF RatGt(RuleScores[sheets[Min(top)].name], <<-200, 1>>) THEN Min(top)
        ELSE 0

\* C11: the Tagger selects the first of the sheets with the highest score
\* (-200 for the excluded year, +100 for the target year, plus 10 times the
\* best keyword ratio), and none when that score does not exceed -200: every
\* run that returns a result returns that sheet's name, and every run on a
\* workbook without such a sheet returns None.  "Receipts 2025" scores higher
\* than "Summary 2024" and is the one selected.
C11_WorksheetSelection ==
    /\ RatGt(ScoreTable[SheetName(1)], ScoreTable[SheetName(2)])
    /\ excel.status = "ok" =>
          \A selected \in {RuleSelects(excel.sheets)} :
              /\ runs = <<>> => BestSheet(excel.sheets) = selected
              /\ \A i \in DOMAIN runs :
                     IF selected = 0 THEN runs[i].result = NoName
                     ELSE runs[i].result # NoName
                              => runs[i].result[1] = excel.sheets[selected].name

\* A run on the workbook whose two sheets score the same has taken the first
C11_Witness ==
    /\ excel.status = "ok"
    /\ Len(excel.sheets) = 2
    /\ excel.sheets[1].name = SheetName(1) /\ excel.sheets[2].name = SheetName(6)
    /\ ~RatGt(ScoreTable[SheetName(1)], ScoreTable[SheetName(6)])
    /\ ~RatGt(ScoreTable[SheetName(6)], ScoreTable[SheetName(1)])
    /\ Len(runs) >= 1
    /\ runs[1].result # NoName
    /\ runs[1].result[1] = SheetName(1)

\* The height of the rows s..e in EMU: a row of customised height by that
\* height, any other row by the default
RECURSIVE RowsHeightEmu(_, _, _)
RowsHeightEmu(sheet, s, e) ==
    IF e < s THEN 0
    ELSE RowsHeightEmu(sheet, s, e - 1)
           + (IF e \in DOMAIN sheet.heights
              THEN points_to_pixels(sheet.heights[e]) * EmuPerPixel
              ELSE DefaultRowEmu)

\* e is the smallest row from s on with the rows s..e at least H high
IsEndRow(sheet, s, H, e) ==
    /\ e >= s
    /\ RowsHeightEmu(sheet, s, e) >= H
    /\ \A f \in s..(e - 1) : RowsHeightEmu(sheet, s, f) < H

\* No picture of height H anchored to row s reaches below this row: the
\* customised rows may all be of height 0, every other row is 190500 EMU high
LowestEndRow(sheet, s, H) ==
    s + Cardinality(DOMAIN sheet.heights) + (H \div DefaultRowEmu) + 1

\* The end rows a drawing may have by the rule
EndRowsByRule(sheet, drawing) ==
    CASE drawing.kind = "two" -> {drawing.to_row + 1}
      [] drawing.kind = "one" /\ drawing.has_height /\ drawing.height > 0 ->
            {e \in (drawing.from_row + 1)..LowestEndRow(sheet, drawing.from_row + 1, drawing.height) :
                IsEndRow(sheet, drawing.from_row + 1, drawing.height, e)}
      [] OTHER -> {DrawingEndRow(sheet, drawing)}

ScannedRows(sheet) == 1..(SheetMaxRow(sheet) + Headroom - 1)

\* The scanned rows with non-blank content in one of the columns A to N
ContentRows(sheet) ==
    {c[1] : c \in {d \in DOMAIN sheet.cells :
                      /\ d[1] \in ScannedRows(sheet)
                      /\ d[2] \in 1..NumFormatColumns
                      /\ IsContent(sheet.cells[d].value)}}

\* The scanned rows whose cell in column O holds the tag
TagRows(sheet, tag) ==
    {c[1] : c \in {d \in DOMAIN sheet.cells :
                      /\ d[1] \in ScannedRows(sheet)
                      /\ d[2] = MarkerColumn
                      /\ IsMarked(sheet.cells[d].value, tag)}}

\* The rows the drawings of a list end in
EndRows(sheet, drawings) ==
    UNION {EndRowsByRule(sheet, drawings[j]) : j \in DOMAIN drawings}

\* The sheet selected in the workbook on disk, by the rule of C11
Selected == excel.sheets[RuleSelects(excel.sheets)]

Selects == excel.status = "ok" /\ RuleSelects(excel.sheets) # 0

TaggerFailed ==
    /\ Len(runs') = Len(runs) + 1
    /\ runs'[Len(runs')].result = NoName

\* The Inserter, after the Tagger failed, has inserted no image, saved nothing
\* and returned without an error
InserterGaveUp ==
    runs'[Len(runs')].kind = "insert" =>
        /\ pc' = "ins"
        /\ ~runs'[Len(runs')].saved
        /\ workbook' = <<>>
        /\ success_count' = 0
        /\ EmbeddedImages(excel') <= EmbeddedImages(excel)

\* C17 as stated: a run in which find_first_empty_row_and_format returns None
\* (file missing, workbook not loadable, no worksheet above the floor, save
\* failed) leaves the workbook on disk as it was, and the Inserter then
\* inserts no image, does not save and returns without raising.
C17_CleanFailure ==
    [][ TaggerFailed => (excel' = excel /\ InserterGaveUp) ]_vars

\* C17, amended: a run in which find_first_empty_row_and_format returns None
\* leaves the workbook on disk as it was, or, when the save failed while it
\* wrote the file, leaves a file that cannot be loaded; no row is formatted or
\* tagged in a workbook on disk; and the Inserter then inserts no image, does
\* not save and returns without raising.
C17_FailureWithoutTag ==
    [][ TaggerFailed =>
          /\ \/ excel' = excel
             \/ Selects /\ excel'.status = "corrupt"
          /\ Selects' => (Selects /\ TagRows(Selected', now) \subseteq TagRows(Selected, now))
          /\ InserterGaveUp
      ]_vars

\* A first run tagged and saved the workbook; in the second the save failed
\* while it wrote: None was returned, and the file can no longer be loaded
C17_Witness ==
    /\ pc = "ins"
    /\ Len(runs) = 2
    /\ runs[1].result # NoName /\ runs[1].saved
    /\ runs[2].kind = "insert" /\ runs[2].result = NoName /\ ~runs[2].saved
    /\ file_paths # <<>>
    /\ excel.status = "corrupt"

\* A step in which find_first_empty_row_and_format succeeds: it alone writes
\* the workbook while no Inserter loop is under way
TaggerSucceeds == pc = "ins" /\ excel' # excel /\ excel'.status = "ok"

\* What it returned: the result of the run that ended, or what the Inserter
\* took from it
Returned ==
    IF Len(runs') > Len(runs) THEN runs'[Len(runs')].result
    ELSE <<actual_sheet_name', CellAddress(col_str', row_idx')>>

----------------------------------------------------------------------------
(* The Inserter on one picture of every size of the model *)

\* The sides of the pictures, in pixels; FloatFallsShort holds the products
\* of these that a double rounds below their integer
Sides == {1, 2, 50, 100, 145, 399, 400, 401, 464, 539, 600, 800, 1200}

ResizeLists ==
    { <<ImageFile("p.png", <<".","p","n","g">>, Picture(w, h))>> : w \in Sides, h \in Sides }

ResizeInit ==
    /\ InsertStart(ResizeLists)
    /\ excel = Book(<<SheetReceipts>>)

ResizeNext == InsertOnce \/ InsFile \/ InsSave

SpecResize == ResizeInit /\ [][ResizeNext]_vars

\* C12: a picture of width w >= 1 and height h >= 1 is inserted with a width
\* of at most w and at most 400 and a height of at most h and at most 400,
\* and with w and h themselves when both are at most 400.
C12_NeverEnlarges ==
    workbook # <<>> =>
        \A i \in DOMAIN Inserted :
            LET d == Inserted[i]
            IN  (d.px_width >= 1 /\ d.px_height >= 1) =>
                    /\ d.width <= d.px_width /\ d.height <= d.px_height
                    /\ d.width <= 400 /\ d.height <= 400
                    /\ (d.px_width <= 400 /\ d.px_height <= 400)
                           => (d.width = d.px_width /\ d.height = d.px_height)

\* A picture of 539 by 100 has been inserted as 399 by 74, and so scaled down
C12_Witness ==
    /\ workbook # <<>>
    /\ Len(Inserted) = 1
    /\ Inserted[1].px_width = 539 /\ Inserted[1].px_height = 100
    /\ Inserted[1].width = 399 /\ Inserted[1].height = 74

----------------------------------------------------------------------------
(* main.py: the Orchestrator, automate_monthly_report_prep_final *)

\* The positional parameters without a default of
\* find_monthly_xlsx_files(base_path, month_keywords)
LocatorRequiredArgs == 2

\* The arguments of the orchestrator's call,
\* find_monthly_xlsx_files(current_report_folder_path)
OrchLocatorArgs == 1

\* The orchestrator's call of the Locator: Python raises TypeError for a call
\* that leaves a required positional parameter without an argument
CallLocator(disk, current_report_folder_path) ==
    IF OrchLocatorArgs < LocatorRequiredArgs
    THEN [raised |-> TRUE, report_files |-> {}]
    ELSE [raised |-> FALSE,
          report_files |-> find_monthly_xlsx_files(disk, current_report_folder_path, MonthKeys)]

OrchInit ==
    /\ pc = "orch"
    /\ dir1 \in Listings
    /\ dir2 \in Listings
    /\ folder_name_filter = FOLD_NAME_FILTER
    /\ similarity_threshold \in Thresholds
    /\ matched_pairs = <<>>
    /\ FilesIdle
    /\ OrchIdle
    /\ InsIdle

\* Lines 32-62: both roots must be directories; the Matcher is called; without
\* a matched pair the run ends ("任务中止"), before the loop and the summary
OrchStart ==
    /\ pc = "orch"
    /\ IF ~dir1.isdir \/ ~dir2.isdir
       THEN /\ pc' = "orch-returned"
            /\ UNCHANGED <<matched_pairs, pair_idx>>
       ELSE LET directory_mappings ==
                    find_similar_subdirs(dir1, dir2, folder_name_filter, similarity_threshold)
            IN  /\ matched_pairs' = directory_mappings
                /\ IF directory_mappings = <<>>
                   THEN pc' = "orch-returned" /\ UNCHANGED pair_idx
                   ELSE pc' = "orch-loop" /\ pair_idx' = 1
    /\ UNCHANGED <<dir1, dir2, folder_name_filter, similarity_threshold>>
    /\ UNCHANGED <<fileVars, total_processed_folders, exception, summary_printed>>
    /\ UNCHANGED insVars

\* Lines 66-135: one pass of the loop over directory_mappings, and the summary
\* after the last one.  The call of the Locator is in no try block: what it
\* raises ends automate_monthly_report_prep_final.  Past that call the pass
\* skips the pair without a report file or without a renamed copy, and counts
\* the folder otherwise (the Inserter's work on the copy is not followed here).
OrchPair ==
    /\ pc = "orch-loop"
    /\ pair_idx <= Len(matched_pairs)
    /\ LET current_report_folder_path == matched_pairs[pair_idx][1]
           call == CallLocator(fs, current_report_folder_path)
       IN  IF call.raised
           THEN /\ pc' = "orch-raised"
                /\ exception' = "TypeError"
                /\ UNCHANGED <<fs, pair_idx, total_processed_folders, summary_printed>>
           ELSE LET skip == call.report_files = {}
                    first == CHOOSE f \in call.report_files : TRUE
                    r == IF skip THEN <<fs, NoPath>>
                         ELSE copy_and_rename_file(fs, first[1], first[2], first[1][1])
                IN  /\ fs' = r[1]
                    /\ total_processed_folders' =
                           IF r[2] = NoPath THEN total_processed_folders
                           ELSE total_processed_folders + 1
                    /\ IF pair_idx = Len(matched_pairs)
                       THEN /\ summary_printed' = TRUE
                            /\ pc' = "orch-done"
                            /\ UNCHANGED pair_idx
                       ELSE /\ pair_idx' = pair_idx + 1
                            /\ UNCHANGED <<pc, summary_printed>>
                    /\ UNCHANGED exception
    /\ UNCHANGED matcherVars
    /\ UNCHANGED <<locate_args, found_files_and_matches, rename_args, rename_result, repeat>>
    /\ UNCHANGED insVars

OrchNext == OrchStart \/ OrchPair

SpecOrch == OrchInit /\ [][OrchNext]_vars

(* Claims on the Orchestrator *)

\* C7: with a non-empty list of matched folder pairs the run is never ended by
\* one pair: whenever it has ended, the Locator was called for every pair and
\* the final summary report was printed.
C7_AlwaysReachesSummary ==
    (pc \in {"orch-done", "orch-raised"} /\ matched_pairs # <<>>) =>
        /\ summary_printed
        /\ pair_idx = Len(matched_pairs)
        /\ exception = ""

============================================================================
